---------------------------- MODULE Spec2Model ----------------------------
(***************************************************************************)
(* Model of the Crop Matcher page (src/app/page.tsx): the React state of   *)
(* the Home component, the catalog fetch started on mount, and one action  *)
(* per DOM event handler.  Strings are sequences of one-character strings   *)
(* so that toLowerCase, trim and includes are computed, not assumed.       *)
(* A Product is modelled by its two match targets, cropId and title; the   *)
(* display-only fields price, image and buyLink are never read by a        *)
(* handler.  The fetched data is taken to be well typed (an array of      *)
(* Products with string fields), so no handler throws.  The browser may    *)
(* deliver the DOM events in any order; each handler runs to completion    *)
(* and React commits its batched updates, effects included, before the     *)
(* next event.                                                             *)
(***************************************************************************)
EXTENDS Integers, Sequences, FiniteSets, TLC

VARIABLES
    input,                    \* useState("")                       line 14
    suggestions,              \* useState<Product[]>([])            line 15
    showSuggestions,          \* useState(false)                    line 16
    result,                   \* useState(null): <<>> or <<r>>      line 17
    error,                    \* useState("")                       line 18
    loading,                  \* useState(false)                    line 19
    products,                 \* useState<Product[]>([])            line 20
    selectedSuggestionIndex,  \* useState(-1), 0-based as in source line 21
    fetchState,               \* the promise of fetchProducts       line 28
    lastEvent                 \* history: the handler that ran last

vars == <<input, suggestions, showSuggestions, result, error, loading,
          products, selectedSuggestionIndex, fetchState, lastEvent>>

-----------------------------------------------------------------------------
(* Bounds *)

MaxText == 2

MaxCatalog == 2

LongCatalogLen == 6

-----------------------------------------------------------------------------
(* Strings *)

Str(s) == [i \in 1..Len(s) |-> SubSeq(s, i, i)]

TypedChars == {"A", " "}

RECURSIVE StringsOfLen(_)
StringsOfLen(n) ==
    IF n = 0 THEN {<<>>}
    ELSE {Append(s, c) : s \in StringsOfLen(n - 1), c \in TypedChars}

ScenarioText == Str("corn")

Texts == UNION {StringsOfLen(n) : n \in 0..MaxText} \cup {ScenarioText}

LowerChar(c) ==
    CASE c = "A" -> "a"
      [] c = "B" -> "b"
      [] c = "C" -> "c"
      [] c = "E" -> "e"
      [] c = "H" -> "h"
      [] c = "N" -> "n"
      [] c = "O" -> "o"
      [] c = "R" -> "r"
      [] c = "S" -> "s"
      [] c = "T" -> "t"
      [] c = "W" -> "w"
      [] OTHER -> c

toLowerCase(s) == [i \in 1..Len(s) |-> LowerChar(s[i])]

IsWhiteSpace(c) == c = " "

RECURSIVE trimStart(_)
trimStart(s) ==
    IF s # <<>> /\ IsWhiteSpace(Head(s)) THEN trimStart(Tail(s)) ELSE s

RECURSIVE trimEnd(_)
trimEnd(s) ==
    IF s # <<>> /\ IsWhiteSpace(s[Len(s)])
    THEN trimEnd(SubSeq(s, 1, Len(s) - 1))
    ELSE s

trim(s) == trimEnd(trimStart(s))

\* JavaScript truthiness of a string: the empty string is falsy.
Truthy(s) == s # <<>>

includes(haystack, needle) ==
    \E i \in 1..(Len(haystack) - Len(needle) + 1) :
        SubSeq(haystack, i, i + Len(needle) - 1) = needle

-----------------------------------------------------------------------------
(* Catalogs the fetch of /mock-products.json may deliver *)

Product(id, t) == [cropId |-> Str(id), title |-> Str(t)]

PA == Product("AaB", "x")
PB == Product("b", "a y")

Products == {PA, PB}

RECURSIVE SeqsOfLen(_, _)
SeqsOfLen(S, n) ==
    IF n = 0 THEN {<<>>}
    ELSE {Append(s, e) : s \in SeqsOfLen(S, n - 1), e \in S}

LongCatalogs == SeqsOfLen(Products, LongCatalogLen)

ScenarioCatalog ==
    <<Product("CORN01", "Sweet Corn"), Product("WHEAT02", "Winter Wheat")>>

\* a catalog whose only entry has a white-space cropId
BlankIdCatalog == <<Product(" ", "A")>>

Catalogs ==
    UNION {SeqsOfLen(Products, n) : n \in 0..MaxCatalog}
        \cup {ScenarioCatalog, BlankIdCatalog}

-----------------------------------------------------------------------------
(* Array helpers *)

Min(a, b) == IF a < b THEN a ELSE b

slice0_noLimit(arr, n) == arr

\* Array.prototype.slice(0, n)
slice0(arr, n) == SubSeq(arr, 1, Min(n, Len(arr)))

SuggestionLimit == 5

SuggestionMatch_idOnly(product, value) ==
    includes(toLowerCase(product.cropId), toLowerCase(value))

\* the filter predicate of handleInputChange, lines 69-72
SuggestionMatch(product, value) ==
    \/ includes(toLowerCase(product.cropId), toLowerCase(value))
    \/ includes(toLowerCase(product.title), toLowerCase(value))

filtered(catalog, value) ==
    LET Test(p) == SuggestionMatch(p, value)
    IN  SelectSeq(catalog, Test)

SearchMatch_withTitle(product, text) ==
    SuggestionMatch(product, trim(text))

\* the find predicate of handleSearch, line 145
SearchMatch(product, text) ==
    includes(toLowerCase(product.cropId), toLowerCase(trim(text)))

\* Array.prototype.find: <<>> for undefined, <<p>> for the first match
RECURSIVE find(_, _)
find(catalog, text) ==
    IF catalog = <<>> THEN <<>>
    ELSE IF SearchMatch(Head(catalog), text) THEN <<Head(catalog)>>
    ELSE find(Tail(catalog), text)

NoMatchMessage == "No matching product found."

\* the dropdown element is mounted (line 196); suggestionRef.current is
\* non-null exactly then
dropdownVisible == showSuggestions /\ Len(suggestions) > 0

-----------------------------------------------------------------------------
(* Initial state: the first render, with the mount effects run *)

Init ==
    /\ input = <<>>
    /\ suggestions = <<>>
    /\ showSuggestions = FALSE
    /\ result = <<>>
    /\ error = ""
    /\ loading = FALSE
    /\ products = <<>>
    /\ selectedSuggestionIndex = -1
    /\ fetchState = "pending"
    /\ lastEvent = "mount"

-----------------------------------------------------------------------------
(* fetchProducts, lines 28-36 *)

FetchResolve_refetch(data) ==
    /\ fetchState = "pending"
    /\ fetchState' = "pending"
    /\ products' = data
    /\ lastEvent' = "fetchResolve"
    /\ UNCHANGED <<input, suggestions, showSuggestions, result, error,
                   loading, selectedSuggestionIndex>>

FetchResolve(data) ==
    /\ fetchState = "pending"
    /\ fetchState' = "loaded"
    /\ products' = data
    /\ lastEvent' = "fetchResolve"
    /\ UNCHANGED <<input, suggestions, showSuggestions, result, error,
                   loading, selectedSuggestionIndex>>

FetchReject_showsError ==
    /\ fetchState = "pending"
    /\ fetchState' = "failed"
    /\ lastEvent' = "fetchReject"
    /\ error' = "Failed to fetch products."
    /\ UNCHANGED <<input, suggestions, showSuggestions, result,
                   loading, products, selectedSuggestionIndex>>

FetchReject ==
    /\ fetchState = "pending"
    /\ fetchState' = "failed"
    /\ lastEvent' = "fetchReject"
    /\ UNCHANGED <<input, suggestions, showSuggestions, result, error,
                   loading, products, selectedSuggestionIndex>>

-----------------------------------------------------------------------------
(* handleClickOutside, lines 43-49 *)

ClickTargets == {"input", "dropdown", "elsewhere"}

\* both refs are set and neither element contains the target, lines 44-45
OutsideBoth_noNullCheck(target) ==
    target # "dropdown" /\ target # "input"

OutsideBoth(target) ==
    dropdownVisible /\ target # "dropdown" /\ target # "input"

handleClickOutside(target) ==
    /\ target = "dropdown" => dropdownVisible
    /\ lastEvent' = "mousedown-" \o target
    /\ IF OutsideBoth(target)
       THEN /\ showSuggestions' = FALSE
            /\ selectedSuggestionIndex' = -1
       ELSE UNCHANGED <<showSuggestions, selectedSuggestionIndex>>
    /\ UNCHANGED <<input, suggestions, result, error, loading, products,
                   fetchState>>

-----------------------------------------------------------------------------
(* handleInputChange, lines 64-80, with the effect of lines 58-61 *)

InputShow_always(value) == TRUE

\* the branch taken at line 68 decides setShowSuggestions, lines 74, 77
InputShow(value) == Truthy(trim(value))

ResetIndex_keep(prev) == prev

\* setSelectedSuggestionIndex(-1), lines 60 and 79
ResetIndex(prev) == -1

handleInputChange(value) ==
    /\ value # input
    /\ input' = value
    /\ IF Truthy(trim(value))
       THEN suggestions' = slice0(filtered(products, value), SuggestionLimit)
       ELSE suggestions' = <<>>
    /\ showSuggestions' = InputShow(value)
    /\ selectedSuggestionIndex' = ResetIndex(selectedSuggestionIndex)
    /\ lastEvent' = "change"
    /\ UNCHANGED <<result, error, loading, products, fetchState>>

-----------------------------------------------------------------------------
(* selectSuggestion, lines 126-134 *)

SelectedResult_viaFind(product) ==
    LET matched == find(products, product.cropId)
    IN  <<[crop |-> product.cropId, matchedProduct |-> matched[1]]>>

SelectedResult(product) ==
    <<[crop |-> product.cropId, matchedProduct |-> product]>>

selectSuggestion(product) ==
    /\ input' = product.cropId
    /\ showSuggestions' = FALSE
    /\ result' = SelectedResult(product)
    /\ UNCHANGED <<suggestions, error, loading, products,
                   selectedSuggestionIndex, fetchState>>

-----------------------------------------------------------------------------
(* handleSearch, lines 136-162.  The function has no await: it runs to   *)
(* the end of its finally block inside the event that called it, so     *)
(* loading is set and cleared in the same batch of updates.             *)

SearchResult_rawCrop(catalog, text) ==
    LET matched == find(catalog, text)
    IN  IF matched # <<>>
        THEN <<[crop |-> text, matchedProduct |-> matched[1]]>>
        ELSE <<>>

SearchResult(catalog, text) ==
    LET matched == find(catalog, text)
    IN  IF matched # <<>>
        THEN <<[crop |-> trim(text), matchedProduct |-> matched[1]]>>
        ELSE <<>>

SearchError(catalog, text) ==
    IF find(catalog, text) # <<>> THEN "" ELSE NoMatchMessage

SearchGuard_noTrim(text) == Truthy(text)

\* the early return of line 137 is not taken
SearchGuard(text) == Truthy(trim(text))

SearchLoadingWrites_noFinally == <<TRUE>>

\* the setLoading calls of one run, in order: lines 139 and 160
SearchLoadingWrites == <<TRUE, FALSE>>

\* the value React commits for a state set several times in one batch
LastWrite(writes) == writes[Len(writes)]

handleSearch_closing ==
    IF ~SearchGuard(input)
    THEN UNCHANGED <<input, suggestions, showSuggestions, result, error,
                     loading, products, selectedSuggestionIndex, fetchState>>
    ELSE /\ loading' = LastWrite(SearchLoadingWrites)
         /\ result' = SearchResult(products, input)
         /\ error' = SearchError(products, input)
         /\ showSuggestions' = FALSE
         /\ UNCHANGED <<input, suggestions, products,
                        selectedSuggestionIndex, fetchState>>

handleSearch ==
    IF ~SearchGuard(input)
    THEN UNCHANGED <<input, suggestions, showSuggestions, result, error,
                     loading, products, selectedSuggestionIndex, fetchState>>
    ELSE /\ loading' = LastWrite(SearchLoadingWrites)
         /\ result' = SearchResult(products, input)
         /\ error' = SearchError(products, input)
         /\ UNCHANGED <<input, suggestions, showSuggestions, products,
                        selectedSuggestionIndex, fetchState>>

-----------------------------------------------------------------------------
(* handleKeyDown, lines 83-124 *)

Keys == {"Enter", "ArrowDown", "ArrowUp", "Escape", "Tab"}

ArrowDownIndex_wrap(prev, n) == IF prev < n - 1 THEN prev + 1 ELSE 0

ArrowDownIndex(prev, n) == IF prev < n - 1 THEN prev + 1 ELSE prev

ArrowUpIndex(prev) == IF prev > 0 THEN prev - 1 ELSE prev

ReopenOnArrowDown_always == TRUE

\* the second conjunct of line 89
ReopenOnArrowDown == Len(suggestions) > 0

EnterSelects_offByOne ==
    /\ selectedSuggestionIndex > 0
    /\ selectedSuggestionIndex < Len(suggestions)

EnterSelects ==
    /\ selectedSuggestionIndex >= 0
    /\ selectedSuggestionIndex < Len(suggestions)

handleKeyDown(key) ==
    /\ lastEvent' = "key" \o key
    /\ IF ~showSuggestions
       THEN CASE key = "Enter" -> handleSearch
              [] key = "ArrowDown" /\ ReopenOnArrowDown ->
                    /\ showSuggestions' = TRUE
                    /\ UNCHANGED <<input, suggestions, result, error, loading,
                                   products, selectedSuggestionIndex,
                                   fetchState>>
              [] OTHER ->
                    UNCHANGED <<input, suggestions, showSuggestions, result,
                                error, loading, products,
                                selectedSuggestionIndex, fetchState>>
       ELSE CASE key = "ArrowDown" ->
                    /\ selectedSuggestionIndex' =
                          ArrowDownIndex(selectedSuggestionIndex,
                                         Len(suggestions))
                    /\ UNCHANGED <<input, suggestions, showSuggestions,
                                   result, error, loading, products,
                                   fetchState>>
              [] key = "ArrowUp" ->
                    /\ selectedSuggestionIndex' =
                          ArrowUpIndex(selectedSuggestionIndex)
                    /\ UNCHANGED <<input, suggestions, showSuggestions,
                                   result, error, loading, products,
                                   fetchState>>
              [] key = "Enter" ->
                    IF EnterSelects
                    THEN selectSuggestion(
                             suggestions[selectedSuggestionIndex + 1])
                    ELSE handleSearch
              [] key = "Escape" ->
                    /\ showSuggestions' = FALSE
                    /\ selectedSuggestionIndex' = -1
                    /\ UNCHANGED <<input, suggestions, result, error, loading,
                                   products, fetchState>>
              [] OTHER ->
                    UNCHANGED <<input, suggestions, showSuggestions, result,
                                error, loading, products,
                                selectedSuggestionIndex, fetchState>>

-----------------------------------------------------------------------------
(* Handlers bound in the markup, lines 184, 207, 208, 239-240 *)

onFocus ==
    /\ lastEvent' = "focus"
    /\ IF Truthy(trim(input)) /\ Len(suggestions) > 0
       THEN showSuggestions' = TRUE
       ELSE UNCHANGED showSuggestions
    /\ UNCHANGED <<input, suggestions, result, error, loading, products,
                   selectedSuggestionIndex, fetchState>>

onSuggestionClick(index) ==
    /\ dropdownVisible
    /\ index \in 0..(Len(suggestions) - 1)
    /\ lastEvent' = "suggestionClick"
    /\ selectSuggestion(suggestions[index + 1])

onMouseEnter(index) ==
    /\ dropdownVisible
    /\ index \in 0..(Len(suggestions) - 1)
    /\ lastEvent' = "mouseEnter"
    /\ selectedSuggestionIndex' = index
    /\ UNCHANGED <<input, suggestions, showSuggestions, result, error,
                   loading, products, fetchState>>

onSearchClick_needsCatalog ==
    /\ ~(loading \/ ~Truthy(trim(input)) \/ products = <<>>)
    /\ lastEvent' = "searchClick"
    /\ handleSearch

onSearchClick ==
    /\ ~(loading \/ ~Truthy(trim(input)))
    /\ lastEvent' = "searchClick"
    /\ handleSearch

-----------------------------------------------------------------------------

Next ==
    \/ \E data \in Catalogs : FetchResolve(data)
    \/ FetchReject
    \/ \E target \in ClickTargets : handleClickOutside(target)
    \/ \E value \in Texts : handleInputChange(value)
    \/ \E key \in Keys : handleKeyDown(key)
    \/ onFocus
    \/ \E index \in 0..(SuggestionLimit - 1) : onSuggestionClick(index)
    \/ \E index \in 0..(SuggestionLimit - 1) : onMouseEnter(index)
    \/ onSearchClick

Spec == Init /\ [][Next]_vars

\* The same page fed catalogs longer than the suggestion limit.
NextLong ==
    \/ \E data \in LongCatalogs : FetchResolve(data)
    \/ \E value \in Texts : handleInputChange(value)
    \/ \E index \in 0..(SuggestionLimit - 1) : onMouseEnter(index)
    \/ \E index \in 0..(SuggestionLimit - 1) : onSuggestionClick(index)

SpecLong == Init /\ [][NextLong]_vars

-----------------------------------------------------------------------------
(* Vocabulary of the properties, stated without the operators the        *)
(* handlers are built from.                                              *)

\* text is empty or consists of white space only
Blank(text) == \A i \in 1..Len(text) : text[i] = " "

\* text without its leading and trailing white space
Trimmed(text) ==
    IF Blank(text) THEN <<>>
    ELSE LET first == CHOOSE i \in 1..Len(text) :
                          /\ text[i] # " "
                          /\ \A j \in 1..(i - 1) : text[j] = " "
             last  == CHOOSE i \in 1..Len(text) :
                          /\ text[i] # " "
                          /\ \A j \in (i + 1)..Len(text) : text[j] = " "
         IN  [k \in 1..(last - first + 1) |-> text[first + k - 1]]

\* whole contains part, letter case ignored
ContainsCI(whole, part) ==
    \E off \in 0..(Len(whole) - Len(part)) :
        \A k \in 1..Len(part) : LowerChar(whole[off + k]) = LowerChar(part[k])

\* positions of the catalog entries a suggestion query matches
SuggestPositions(q) ==
    {i \in 1..Len(products) :
        ContainsCI(products[i].cropId, q) \/ ContainsCI(products[i].title, q)}

\* positions of the catalog entries an explicit search matches
SearchPositions(q) ==
    {i \in 1..Len(products) : ContainsCI(products[i].cropId, q)}

\* seq lists, in order, the first entries of the catalog at positions pos,
\* at most limit of them
FirstOf(seq, pos, limit) ==
    /\ Len(seq) = Min(limit, Cardinality(pos))
    /\ \A k \in 1..Len(seq) :
          \E i \in pos : /\ Cardinality({j \in pos : j < i}) = k - 1
                         /\ seq[k] = products[i]

IndexInRange ==
    \/ selectedSuggestionIndex = -1
    \/ /\ 0 <= selectedSuggestionIndex
       /\ selectedSuggestionIndex < Len(suggestions)

-----------------------------------------------------------------------------
\* C1: in every reachable state highlightedIndex is -1 or a valid index
\* into suggestions, and every step that changes suggestions leaves
\* highlightedIndex = -1.
C1_HighlightValid ==
    /\ []IndexInRange
    /\ [][suggestions' # suggestions => selectedSuggestionIndex' = -1]_vars

\* ArrowDown has moved the highlight onto the last of several suggestions
C1_Witness ==
    /\ lastEvent = "keyArrowDown"
    /\ Len(suggestions) >= 2
    /\ selectedSuggestionIndex = Len(suggestions) - 1

-----------------------------------------------------------------------------
\* C2 as stated: the showSuggestions flag is false whenever suggestions is
\* empty.
C2_FlagFalseWhenEmpty == suggestions = <<>> => ~showSuggestions

\* C2, amended: the dropdown is rendered only while suggestions is
\* non-empty; the showSuggestions flag itself is set by a text change
\* exactly when the new text is non-blank, also when nothing matches, so
\* right after a text change the dropdown is rendered exactly when the text
\* is non-blank and the new suggestions are non-empty.
C2_RenderedOnlyNonEmpty ==
    /\ suggestions = <<>> => ~dropdownVisible
    /\ lastEvent = "change" =>
          /\ showSuggestions <=> ~Blank(input)
          /\ dropdownVisible <=> (~Blank(input) /\ suggestions # <<>>)

\* a non-blank text that matches nothing in a loaded, non-empty catalog
C2_Witness ==
    /\ lastEvent = "change"
    /\ products # <<>>
    /\ ~Blank(input)
    /\ suggestions = <<>>
    /\ showSuggestions
    /\ ~dropdownVisible

-----------------------------------------------------------------------------
\* C3: after a text change to q the suggestions are exactly the first 5 (or
\* fewer) catalog entries, in catalog order, whose cropId or title contains
\* q ignoring case; for an empty or white-space-only q they are empty.
C3_SuggestionsAreFirstFive ==
    lastEvent = "change" =>
        IF Blank(input)
        THEN suggestions = <<>>
        ELSE FirstOf(suggestions, SuggestPositions(input), 5)

\* more than five entries match, one of them by its title only, and an
\* entry that does not match stands before the last one listed
C3_Witness ==
    /\ lastEvent = "change"
    /\ Len(suggestions) = 5
    /\ Cardinality(SuggestPositions(input)) > 5
    /\ \E k \in 1..5 : ~ContainsCI(suggestions[k].cropId, input)

-----------------------------------------------------------------------------
\* C4: for a non-blank inputText the explicit search (search button, or
\* Enter routed to the search) ends with result = (trimmed inputText, first
\* catalog entry whose cropId contains the trimmed inputText ignoring case)
\* when there is one, and otherwise with errorMessage = "No matching
\* product found." and no result; the title is never consulted.
SearchOutcome ==
    LET q   == Trimmed(input)
        pos == SearchPositions(q)
    IN  IF pos # {}
        THEN /\ result = <<[crop |-> q,
                            matchedProduct |->
                              products[CHOOSE i \in pos :
                                          \A j \in pos : i <= j]]>>
             /\ error = ""
        ELSE /\ result = <<>>
             /\ error = "No matching product found."

EnterRoutedToSearch ==
    ~(showSuggestions /\ selectedSuggestionIndex >= 0
                      /\ selectedSuggestionIndex < Len(suggestions))

C4_SearchFindsFirstByCropId ==
    [][(/\ \/ lastEvent' = "searchClick"
           \/ lastEvent' = "keyEnter" /\ EnterRoutedToSearch
        /\ ~Blank(input))
       => (SearchOutcome' /\ ~loading')]_vars

\* a search for a padded text hit an entry although an earlier entry
\* carries the text in its title
C4_Witness ==
    /\ lastEvent = "searchClick"
    /\ input # Trimmed(input)
    /\ result # <<>>
    /\ result[1].crop = Trimmed(input)
    /\ \E i \in 1..Len(products) :
          /\ ContainsCI(products[i].title, Trimmed(input))
          /\ \A j \in SearchPositions(Trimmed(input)) : i < j

-----------------------------------------------------------------------------
\* C5: at most one of result and errorMessage is set, after a search and in
\* every state reached by later events until the next search.
C5_AtMostOneOfResultAndError == ~(result # <<>> /\ error # "")

-----------------------------------------------------------------------------
\* C6: an errorMessage left by a failed search is cleared by the next
\* successful match, selecting a suggestion included: no step puts a new
\* result on the page and leaves the earlier message standing.
C6_ErrorClearedByNextMatch ==
    [][(error # "" /\ result' # <<>> /\ result' # result) => error' = ""]_vars

-----------------------------------------------------------------------------
\* C7: selecting a suggestion P, by click or by Enter while P is
\* highlighted in the open dropdown, sets inputText to P.cropId, closes the
\* dropdown and sets result to (P.cropId, P) itself, not to what a search
\* for P.cropId would find.
SelectionOf(P) ==
    /\ input' = P.cropId
    /\ ~showSuggestions'
    /\ result' = <<[crop |-> P.cropId, matchedProduct |-> P]>>

C7_SelectionBypassesSearch ==
    [][/\ lastEvent' = "suggestionClick" =>
            \E i \in 1..Len(suggestions) : SelectionOf(suggestions[i])
       /\ (/\ lastEvent' = "keyEnter"
           /\ showSuggestions
           /\ selectedSuggestionIndex >= 0
           /\ selectedSuggestionIndex < Len(suggestions)) =>
            SelectionOf(suggestions[selectedSuggestionIndex + 1])]_vars

\* the product selected with Enter is shown although an earlier catalog
\* entry's cropId contains its cropId
C7_Witness ==
    /\ lastEvent = "keyEnter"
    /\ ~showSuggestions
    /\ result # <<>>
    /\ result[1].crop = input
    /\ result[1].matchedProduct.cropId = input
    /\ \E i \in SearchPositions(input) :
          /\ products[i] # result[1].matchedProduct
          /\ \A j \in 1..Len(products) :
                products[j] = result[1].matchedProduct => i < j

-----------------------------------------------------------------------------
Max(a, b) == IF a > b THEN a ELSE b

\* C8 as stated: with the dropdown open ArrowDown adds 1 and ArrowUp
\* subtracts 1, the outcome clamped to [0, len(suggestions)-1], so after
\* either key the index lies in that range.
C8_ArrowsClampToRange ==
    [][dropdownVisible =>
         /\ lastEvent' = "keyArrowDown" =>
               /\ selectedSuggestionIndex' =
                     Min(selectedSuggestionIndex + 1, Len(suggestions) - 1)
               /\ selectedSuggestionIndex' \in 0..(Len(suggestions) - 1)
         /\ lastEvent' = "keyArrowUp" =>
               /\ selectedSuggestionIndex' =
                     Max(selectedSuggestionIndex - 1, 0)
               /\ selectedSuggestionIndex' \in 0..(Len(suggestions) - 1)]_vars

\* C8, amended: with the dropdown open ArrowDown adds 1 up to the last
\* index and never wraps, so afterwards the index lies in
\* [0, len(suggestions)-1]; ArrowUp subtracts 1 down to 0 and never wraps,
\* but with nothing highlighted (-1) it leaves the index at -1.
C8_ArrowsMoveWithoutWrap ==
    [][dropdownVisible =>
         /\ lastEvent' = "keyArrowDown" =>
               /\ selectedSuggestionIndex' =
                     Min(selectedSuggestionIndex + 1, Len(suggestions) - 1)
               /\ selectedSuggestionIndex' \in 0..(Len(suggestions) - 1)
         /\ lastEvent' = "keyArrowUp" =>
               selectedSuggestionIndex' =
                   IF selectedSuggestionIndex = -1
                   THEN -1
                   ELSE Max(selectedSuggestionIndex - 1, 0)]_vars

\* ArrowUp was pressed in the open dropdown with nothing highlighted
C8_Witness ==
    /\ lastEvent = "keyArrowUp"
    /\ dropdownVisible
    /\ Len(suggestions) >= 2
    /\ selectedSuggestionIndex = -1

-----------------------------------------------------------------------------
ScenarioHolds ==
    (/\ products = ScenarioCatalog
     /\ input = ScenarioText
     /\ lastEvent = "keyEnter") =>
        result = <<[crop |-> ScenarioText,
                    matchedProduct |-> ScenarioCatalog[1]]>>

SearchFrame ==
    UNCHANGED <<input, suggestions, showSuggestions, selectedSuggestionIndex>>

\* C9 as stated: Enter in the open dropdown with a valid highlightedIndex
\* selects that suggestion and runs no search; Enter with highlightedIndex
\* = -1 runs the explicit search on the typed text; with the dropdown
\* closed Enter runs the explicit search only when no item is highlighted.
C9_EnterDispatch ==
    /\ []ScenarioHolds
    /\ [][lastEvent' = "keyEnter" =>
            /\ ~EnterRoutedToSearch =>
                  /\ SelectionOf(suggestions[selectedSuggestionIndex + 1])
                  /\ UNCHANGED error
            /\ (selectedSuggestionIndex = -1 /\ ~Blank(input)) =>
                  SearchOutcome' /\ SearchFrame
            /\ (~showSuggestions /\ selectedSuggestionIndex # -1) =>
                  UNCHANGED <<result, error>>]_vars

\* C9, amended: Enter in the open dropdown (showSuggestions true) with a
\* valid highlightedIndex selects that suggestion and runs no search; in
\* every other case Enter runs the explicit search on the typed text: with
\* highlightedIndex = -1, and also with the dropdown closed whatever
\* highlightedIndex is, a highlight left over from a selection included.
C9_EnterSelectsOnlyWhenOpen ==
    /\ []ScenarioHolds
    /\ [][lastEvent' = "keyEnter" =>
            IF ~EnterRoutedToSearch
            THEN /\ SelectionOf(suggestions[selectedSuggestionIndex + 1])
                 /\ UNCHANGED error
            ELSE IF Blank(input)
                 THEN UNCHANGED <<result, error>> /\ SearchFrame
                 ELSE SearchOutcome' /\ SearchFrame]_vars

\* Enter ran the search with the dropdown closed while the index of the
\* item selected before was still set
C9_Witness ==
    /\ lastEvent = "keyEnter"
    /\ ~showSuggestions
    /\ selectedSuggestionIndex >= 0
    /\ result # <<>>
    /\ result[1].matchedProduct # suggestions[selectedSuggestionIndex + 1]

-----------------------------------------------------------------------------
\* C10 as stated: in any state a click outside both the input and the
\* dropdown leaves the dropdown hidden and highlightedIndex = -1, and
\* leaves inputText, suggestions, result and errorMessage unchanged.
C10_OutsideClickResets ==
    [][lastEvent' = "mousedown-elsewhere" =>
         /\ ~dropdownVisible'
         /\ selectedSuggestionIndex' = -1
         /\ UNCHANGED <<input, suggestions, result, error>>]_vars

\* C10, amended: a click outside both the input and the dropdown while the
\* dropdown is rendered sets showSuggestions to false and highlightedIndex
\* to -1; while the dropdown is not rendered it changes nothing, so a
\* highlightedIndex left by a selection stays; in both cases the dropdown
\* is hidden afterwards and inputText, suggestions, result and
\* errorMessage are unchanged.
C10_OutsideClickClosesRendered ==
    [][lastEvent' = "mousedown-elsewhere" =>
         /\ ~dropdownVisible'
         /\ IF dropdownVisible
            THEN ~showSuggestions' /\ selectedSuggestionIndex' = -1
            ELSE UNCHANGED <<showSuggestions, selectedSuggestionIndex>>
         /\ UNCHANGED <<input, suggestions, result, error>>]_vars

\* an outside click came while the dropdown was closed by a selection and
\* the index of the selected item was still set
C10_Witness ==
    /\ lastEvent = "mousedown-elsewhere"
    /\ ~showSuggestions
    /\ selectedSuggestionIndex >= 0

-----------------------------------------------------------------------------
\* the handlers of the user's events can run: typing, keys, mouse-down and
\* focus always, the search button whenever the input is non-blank
UserEventsEnabled ==
    /\ ENABLED (\E value \in Texts : handleInputChange(value))
    /\ \A key \in Keys : ENABLED handleKeyDown(key)
    /\ ENABLED handleClickOutside("elsewhere")
    /\ ENABLED handleClickOutside("input")
    /\ ENABLED onFocus
    /\ ~Blank(input) => ENABLED onSearchClick

\* a step of the explicit search on a non-blank input
SearchStep ==
    /\ \/ lastEvent' = "searchClick"
       \/ lastEvent' = "keyEnter" /\ EnterRoutedToSearch
    /\ ~Blank(input)

ReportsNoMatch ==
    result = <<>> /\ error = "No matching product found."

\* C11: when the catalog fetch fails the catalog stays empty and the
\* failure sets no errorMessage; from then on every text change yields
\* empty suggestions, every explicit search on a non-blank input ends with
\* "No matching product found." and no result, and the user's events stay
\* enabled.
C11_FailedFetchDegrades ==
    /\ [](fetchState = "failed" =>
            /\ products = <<>>
            /\ UserEventsEnabled
            /\ lastEvent = "change" => suggestions = <<>>)
    /\ [][lastEvent' = "fetchReject" => UNCHANGED <<error, products>>]_vars
    /\ [][(fetchState = "failed" /\ SearchStep) => ReportsNoMatch']_vars

\* after the failed fetch a search for a typed text reported no match
C11_Witness ==
    /\ fetchState = "failed"
    /\ lastEvent = "searchClick"
    /\ ~Blank(input)
    /\ ReportsNoMatch

-----------------------------------------------------------------------------
\* C12: the catalog load can complete at any point among the user's events
\* and never blocks them: while it is pending the user's events are
\* enabled, every text change yields empty suggestions and every explicit
\* search on a non-blank input reports no match.
C12_PendingLoadDoesNotBlock ==
    /\ [](fetchState = "pending" =>
            /\ products = <<>>
            /\ ENABLED (\E data \in Catalogs : FetchResolve(data))
            /\ UserEventsEnabled
            /\ lastEvent = "change" => suggestions = <<>>)
    /\ [][(fetchState = "pending" /\ fetchState' = "pending" /\ SearchStep)
            => ReportsNoMatch']_vars

\* a text was typed and searched for while the load was still pending
C12_Witness ==
    /\ fetchState = "pending"
    /\ lastEvent = "keyEnter"
    /\ input = ScenarioText
    /\ showSuggestions
    /\ ReportsNoMatch

-----------------------------------------------------------------------------
\* C13: the catalog changes value at most once, from empty to the fetched
\* list in the load-complete step, and no user event changes it.
C13_CatalogLoadedOnce ==
    /\ [][products' # products =>
            /\ products = <<>>
            /\ fetchState = "pending"
            /\ fetchState' = "loaded"
            /\ lastEvent' = "fetchResolve"]_vars
    /\ [][fetchState # "pending" => fetchState' = fetchState]_vars

\* user events of every kind ran on a loaded catalog, down to a selection
C13_Witness ==
    /\ fetchState = "loaded"
    /\ products # <<>>
    /\ lastEvent = "suggestionClick"
    /\ error # ""

-----------------------------------------------------------------------------
\* C14: isSearching is false in every state between events, after a search
\* that hit as after one that missed, so a finished search never leaves
\* the search button disabled.
C14_NeverLeftSearching ==
    /\ ~loading
    /\ ~Blank(input) => ENABLED onSearchClick

\* a search has just missed and the button can be clicked again
C14_Witness ==
    /\ lastEvent = "searchClick"
    /\ products # <<>>
    /\ ReportsNoMatch
    /\ ~loading

-----------------------------------------------------------------------------
\* C17: whenever result is set, its matchedProduct is an entry of the
\* loaded catalog and that entry's cropId contains result.crop ignoring
\* case, for a result of a search as for one of a selection.
C17_ResultIsCatalogEntry ==
    result # <<>> =>
        /\ fetchState = "loaded"
        /\ \E i \in 1..Len(products) : products[i] = result[1].matchedProduct
        /\ ContainsCI(result[1].matchedProduct.cropId, result[1].crop)

\* a result of a search for a padded text
C17_Witness ==
    /\ lastEvent = "searchClick"
    /\ result # <<>>
    /\ input # Trimmed(input)
    /\ ~ContainsCI(result[1].matchedProduct.cropId, input)

-----------------------------------------------------------------------------
\* C18: Enter routed to the explicit search while inputText is empty or
\* white space only changes nothing: result, errorMessage, isSearching,
\* inputText, suggestions, dropdownVisible and highlightedIndex keep their
\* values, so an earlier result or error stays shown.
C18_BlankSearchIsNoOp ==
    [][(lastEvent' = "keyEnter" /\ EnterRoutedToSearch /\ Blank(input)) =>
         UNCHANGED <<result, error, loading, input, suggestions,
                     showSuggestions, selectedSuggestionIndex,
                     products>>]_vars

\* Enter was pressed on a white-space input while an earlier result was
\* shown
C18_Witness ==
    /\ lastEvent = "keyEnter"
    /\ input # <<>>
    /\ Blank(input)
    /\ result # <<>>

-----------------------------------------------------------------------------
\* C19: the explicit search changes only result, errorMessage and
\* isSearching, never inputText, suggestions, dropdownVisible or
\* highlightedIndex: a dropdown open when Enter or the button started the
\* search is still open afterwards.
C19_SearchFrame ==
    [][(\/ lastEvent' = "searchClick"
        \/ lastEvent' = "keyEnter" /\ EnterRoutedToSearch) =>
         /\ UNCHANGED <<input, suggestions, showSuggestions,
                        selectedSuggestionIndex, products>>
         /\ dropdownVisible' = dropdownVisible]_vars

\* the button ran a search that hit while the dropdown was open with an
\* item highlighted, and the dropdown is still open
C19_Witness ==
    /\ lastEvent = "searchClick"
    /\ dropdownVisible
    /\ selectedSuggestionIndex >= 0
    /\ result # <<>>

-----------------------------------------------------------------------------
\* every listed suggestion carries the current inputText
EntriesContainInput ==
    \A k \in 1..Len(suggestions) :
        \/ ContainsCI(suggestions[k].cropId, input)
        \/ ContainsCI(suggestions[k].title, input)

\* C15 as stated: suggestions holds at most 5 products and follows every
\* change of inputText, the one made by a selection included: in every
\* reachable state each entry contains the current inputText ignoring case
\* in its cropId or title.
C15_SuggestionsFollowInput ==
    Len(suggestions) <= 5 /\ EntriesContainInput

\* C15, amended: suggestions holds at most 5 products in every reachable
\* state and is recomputed by text-change events only; right after a text
\* change each entry contains the typed inputText.  Selecting a suggestion
\* replaces inputText by the cropId and leaves suggestions as they were.
C15_SuggestionsFollowTypedText ==
    /\ [](Len(suggestions) <= 5)
    /\ [](lastEvent = "change" => EntriesContainInput)
    /\ [][suggestions' # suggestions => lastEvent' = "change"]_vars
    /\ [][lastEvent' = "suggestionClick" =>
            /\ suggestions' = suggestions
            /\ \E k \in 1..Len(suggestions) :
                  input' = suggestions[k].cropId]_vars

\* after a selection the five suggestions of a longer match list are still
\* listed although one of them does not carry the new inputText
C15_Witness ==
    /\ lastEvent = "suggestionClick"
    /\ Len(suggestions) = 5
    /\ Len(products) > 5
    /\ ~EntriesContainInput

-----------------------------------------------------------------------------
ReopenFrame ==
    UNCHANGED <<selectedSuggestionIndex, input, suggestions, result, error>>

\* C16: with the dropdown closed ArrowDown re-opens it exactly when
\* suggestions is non-empty and changes nothing else (with suggestions
\* empty it changes nothing at all); focusing the input re-opens it
\* exactly when inputText is non-blank and suggestions is non-empty.
C16_ReopenByArrowDownOrFocus ==
    /\ [][(lastEvent' = "keyArrowDown" /\ ~dropdownVisible) =>
            /\ dropdownVisible' <=> Len(suggestions) > 0
            /\ Len(suggestions) = 0 => UNCHANGED showSuggestions
            /\ ReopenFrame]_vars
    /\ [][(lastEvent' = "focus" /\ ~dropdownVisible) =>
            /\ dropdownVisible' <=> (~Blank(input) /\ Len(suggestions) > 0)
            /\ ReopenFrame]_vars

\* ArrowDown has re-opened the dropdown that a click selection had closed,
\* on an inputText that focus would not have re-opened it for
C16_Witness ==
    /\ lastEvent = "keyArrowDown"
    /\ dropdownVisible
    /\ selectedSuggestionIndex = -1
    /\ Blank(input)

-----------------------------------------------------------------------------
\* C20 as stated: whenever the dropdown is closed highlightedIndex is -1.
C20_ClosedMeansNoHighlight ==
    ~dropdownVisible => selectedSuggestionIndex = -1

\* C20, amended: a dropdown closed by Escape, by an outside click or by a
\* text change has highlightedIndex = -1; selecting a suggestion closes
\* the dropdown and keeps highlightedIndex, so a closed dropdown has a
\* highlightedIndex other than -1 only after a selection (inputText is
\* then the cropId of a listed suggestion and a result is shown), and
\* re-opening it shows that highlight again.
C20_OnlySelectionKeepsHighlight ==
    /\ []((~dropdownVisible /\ selectedSuggestionIndex # -1) =>
            /\ result # <<>>
            /\ \E k \in 1..Len(suggestions) : input = suggestions[k].cropId)
    /\ [][(dropdownVisible /\ ~dropdownVisible') =>
            IF lastEvent' \in {"keyEscape", "mousedown-elsewhere", "change"}
            THEN selectedSuggestionIndex' = -1
            ELSE /\ lastEvent' \in {"keyEnter", "suggestionClick"}
                 /\ selectedSuggestionIndex' = selectedSuggestionIndex
                 /\ \E k \in 1..Len(suggestions) :
                       SelectionOf(suggestions[k])]_vars
    /\ [][(~dropdownVisible /\ dropdownVisible'
              /\ lastEvent' \in {"keyArrowDown", "focus"}) =>
            selectedSuggestionIndex' = selectedSuggestionIndex]_vars

\* after a selection put a cropId into the input the dropdown is open
\* again, the last event a focus, with the selected item's index still set
C20_Witness ==
    /\ lastEvent = "focus"
    /\ dropdownVisible
    /\ selectedSuggestionIndex >= 0
    /\ result # <<>>
    /\ input = suggestions[selectedSuggestionIndex + 1].cropId
    /\ ~ContainsCI(suggestions[selectedSuggestionIndex + 1].title, input)
    /\ \E k \in 1..Len(suggestions) : ~ContainsCI(suggestions[k].cropId, input)

TypeOK ==
    /\ showSuggestions \in BOOLEAN
    /\ loading \in BOOLEAN
    /\ Len(result) <= 1
    /\ selectedSuggestionIndex \in -1..SuggestionLimit
    /\ fetchState \in {"pending", "loaded", "failed"}

=============================================================================
